---- MODULE Spec2Model ----
(***************************************************************************)
(* Model of tools/Send data/file_sender.py: the ANARIUSDClient session     *)
(* (connect / disconnect / send_file / send_message / send_json_message),  *)
(* the ZeroMQ DEALER socket it drives, the ROUTER peer that answers, and   *)
(* main() with its command dispatch.                                       *)
(*                                                                         *)
(* Python values are written as strings: "True", "False", "None"; a call   *)
(* that lets an exception propagate to its caller has the result "raised". *)
(* Every library call inside a try block may raise; the exception classes  *)
(* are those the calls can raise (all subclasses of Exception).            *)
(* KeyboardInterrupt is a signal, not a fault of a step, and is modelled   *)
(* only where main's interactive loop reads its input.                     *)
(***************************************************************************)
EXTENDS Integers, Sequences, FiniteSets, TLC

VARIABLES
    connected,  \* self.connected
    socket,     \* self.socket: 0 is None, else an index into socks
    context,    \* self.context: "open" or "terminated"
    socks,      \* every zmq socket created so far: [open, calls]
    lastCall,   \* the last connect/disconnect call and what it returned
    partial,    \* frames queued with SNDMORE on self.socket, message not yet ended
    inbox,      \* complete multipart messages delivered to the peer, not yet answered
    rcvQueue,   \* replies waiting in self.socket's receive queue
    op,         \* the current (or last finished) send_* invocation
    prev,       \* cause, returned value and file_hash of the invocation before op
    nops,       \* number of send_* invocations so far
    mpc,        \* position of main(); "api" when the client is driven directly
    cmd,        \* main's command line after option parsing
    exitCode    \* what main returned; -1 while it runs

vars == <<connected, socket, context, socks, lastCall, partial, inbox, rcvQueue,
          op, prev, nops, mpc, cmd, exitCode>>

sessionVars == <<connected, socket, context, socks>>
wireVars == <<partial, inbox, rcvQueue>>
mainVars == <<mpc, cmd, exitCode>>

(***************************************************************************)
(* Bounds of the model.                                                    *)
(***************************************************************************)
MaxOps == 2
MaxSockets == 2

(***************************************************************************)
(* Socket options set in connect().                                        *)
(***************************************************************************)
LINGER_MS == 1000
RCVTIMEO_MS == 5000
SNDTIMEO_MS == 5000

Range(s) == {s[i] : i \in 1..Len(s)}

(***************************************************************************)
(* The file system, the texts and the JSON values the operations are       *)
(* called with.                                                            *)
(***************************************************************************)
Paths == {<<"d", "a.usd">>, <<"d", "b.png">>, <<"e", "a.usd">>, <<"d", "x.usd">>, <<"d">>}

\* Path.exists()
Exists(p) == p # <<"d", "x.usd">>

\* open(p, 'rb') succeeds: a directory exists and cannot be opened for reading
Readable(p) == Exists(p) /\ p # <<"d">>

\* f.read()
Content(p) ==
    CASE p = <<"d", "a.usd">> -> <<>>
      [] p = <<"d", "b.png">> -> <<7>>
      [] p = <<"e", "a.usd">> -> <<7>>
      [] OTHER -> <<>>

\* Path.name: the final component
Name(p) == p[Len(p)]

\* hashlib.sha256(data).hexdigest(), on the contents the file system holds
calculate_sha256(data) ==
    CASE data = <<>> -> "e3b0c44298fc1c149afbf4c8996fb92427ae41e4649b934ca495991b7852b855"
      [] data = <<7>> -> "ca358758f6d27e6cf45272937977a748fd88391db679ceda7dc7bf1f005ee879"
      [] OTHER -> "c7b99f1c681eaad2096f54c0380b8f950fa5cbe47cb3695ed590167c0dfff315"

Messages == {"STATUS"}

\* JSON values: an int, and a Python set (not serializable)
JsonValues == {[t |-> "int", items |-> <<1>>],
               [t |-> "set", items |-> <<1>>]}

\* the values json.load / json.loads can produce
ParsedJsonValues == {v \in JsonValues : v.t # "set"}

Serializable(v) == v.t \in {"int", "list"}

Digit(n) == CASE n = 0 -> "0" [] n = 1 -> "1" [] n = 2 -> "2" [] OTHER -> "9"

\* json.dumps(v, indent=2)
Dumps(v) ==
    IF v.t = "int" THEN Digit(v.items[1])
    ELSE "[\n  " \o Digit(v.items[1]) \o "\n]"

(***************************************************************************)
(* Exceptions and the handlers of the try blocks.                          *)
(***************************************************************************)
\* a handler that catches zmq errors only
IsException_ZmqOnly(cls) == cls \in {"Again", "ZMQError"}

\* isinstance(e, Exception)
IsException(cls) ==
    cls \in {"Again", "ZMQError", "OSError", "UnicodeDecodeError", "TypeError", "AttributeError"}

\* the inner try around the sends as well: every zmq.Again is a timeout
Handle_AgainIsTimeout(site, cls) ==
    IF cls = "Again" THEN "timeout"
    ELSE IF IsException(cls) THEN "error"
    ELSE "raised"

\* no inner try around recv_string: zmq.Again reaches the outer handler
Handle_NoInnerTry(site, cls) == IF IsException(cls) THEN "error" ELSE "raised"

\* The handler an exception raised at `site` reaches in send_file/send_message:
\* the inner try (around recv_string) catches zmq.Again, the outer one Exception.
Handle(site, cls) ==
    IF site = "recv" /\ cls = "Again" THEN "timeout"
    ELSE IF IsException(cls) THEN "error"
    ELSE "raised"

\* the timeout branch returning True as well
Ret_TimeoutTrue(branch) ==
    CASE branch \in {"ok", "timeout"} -> "True"
      [] branch = "raised" -> "raised"
      [] OTHER -> "False"

\* the generic handler returning True
Ret_ErrorTrue(branch) ==
    CASE branch \in {"ok", "error"} -> "True"
      [] branch = "raised" -> "raised"
      [] OTHER -> "False"

\* What each branch returns to the caller.
Ret(branch) ==
    CASE branch = "ok" -> "True"
      [] branch = "raised" -> "raised"
      [] OTHER -> "False"

\* The outcome (state machine terminal) each branch stands for.
Outcome(branch) ==
    CASE branch = "ok" -> "Succeeded"
      [] branch = "timeout" -> "TimedOut"
      [] branch = "raised" -> "Raised"
      [] OTHER -> "Failed"

(***************************************************************************)
(* ZeroMQ sockets.                                                         *)
(***************************************************************************)
\* The calls connect() makes on a new socket, in order (after context.socket()).
ConnectCalls == <<"LINGER", "RCVTIMEO", "SNDTIMEO", "IDENTITY", "connect">>

NewSocket(ncalls) == [open |-> TRUE, calls |-> SubSeq(ConnectCalls, 1, ncalls)]

\* zmq.RCVTIMEO / zmq.SNDTIMEO of a socket: -1 (block forever) unless set
RcvTimeo(s) == IF "RCVTIMEO" \in Range(socks[s].calls) THEN RCVTIMEO_MS ELSE -1
SndTimeo(s) == IF "SNDTIMEO" \in Range(socks[s].calls) THEN SNDTIMEO_MS ELSE -1
Linger(s) == IF "LINGER" \in Range(socks[s].calls) THEN LINGER_MS ELSE -1

\* the socket has a pipe to the endpoint
Peered(s) == socks[s].open /\ "connect" \in Range(socks[s].calls)

\* socket.close(): the zmq socket and the options set on it are gone
CloseSocket(ss, s) == [ss EXCEPT ![s] = [open |-> FALSE, calls |-> <<>>]]

\* no test of self.socket before close()
Truthy_Always(x) == TRUE

\* Python truth value of self.socket / self.context (None is false)
Truthy(x) == x # 0

Frame(id, part, text, bytes) == [op |-> id, part |-> part, text |-> text, bytes |-> bytes]

\* the hash taken over the file name and the content together
FileEnvelope_HashWithName(id, path, data) ==
    << Frame(id, "name", Name(path), <<>>),
       Frame(id, "content", "", data),
       Frame(id, "digest", calculate_sha256(<<Len(path)>> \o data), <<>>) >>

\* send_file's multipart message: [Filename] [Content] [Hash]
FileEnvelope(id, path, data) ==
    << Frame(id, "name", Name(path), <<>>),
       Frame(id, "content", "", data),
       Frame(id, "digest", calculate_sha256(data), <<>>) >>

\* send_message's single frame
TextEnvelope(id, text) == << Frame(id, "text", text, <<>>) >>

\* An invocation record: st is the position ("run", "recv": blocked in recv_string,
\* "blocked": blocked in a send with no send timeout, "done": returned or raised);
\* frames are the frames this invocation handed to the socket; site/exc are where
\* an exception was raised and its class; got is the reply recv_string returned;
\* hash is send_file's file_hash ("" before it is computed).
NoOp == [id |-> 0, kind |-> "none", st |-> "done", path |-> <<>>, frames |-> <<>>,
         nrecv |-> 0, site |-> "none", exc |-> "none", got |-> {}, branch |-> "none",
         ret |-> "None", hash |-> ""]

\* The error kind a finished invocation ended with, from where it stopped:
\* "guard" is the `if not self.connected` test, "exists" the Path.exists() test,
\* the other sites are the calls that raised.
Cause(o) ==
    CASE o.kind = "none" \/ o.st # "done" -> "none"
      [] o.site = "guard" -> "NotConnected"
      [] o.site = "exists" -> "FileNotFound"
      [] o.site = "read" -> "ReadError"
      [] o.site = "dumps" -> "SerializationError"
      [] o.site = "send" -> "SendError"
      [] o.site = "recv" /\ o.exc = "Again" -> "Timeout"
      [] o.site = "recv" /\ o.exc = "UnicodeDecodeError" -> "DecodeError"
      [] o.site = "recv" -> "RecvError"
      [] OTHER -> "Success"

Init ==
    /\ connected = FALSE
    /\ socket = 0
    /\ context = "open"
    /\ socks = <<>>
    /\ lastCall = [name |-> "__init__", ret |-> "None"]
    /\ partial = <<>>
    /\ inbox = <<>>
    /\ rcvQueue = <<>>
    /\ op = NoOp
    /\ prev = [cause |-> "none", ret |-> "None", hash |-> ""]
    /\ nops = 0
    /\ mpc = "api"
    /\ cmd = [name |-> "none", hasArg |-> FALSE]
    /\ exitCode = -1

(***************************************************************************)
(* ANARIUSDClient.connect and disconnect.                                  *)
(***************************************************************************)
\* The Python object bound to self.socket before is unreferenced once the name is
\* rebound; its finalizer closes the zmq socket.
Release(ss, s) == IF s # 0 THEN CloseSocket(ss, s) ELSE ss

\* connect() setting self.connected before the socket is configured and connected
connect_FlagFirst(fail) ==
    /\ (context = "terminated" => fail = 1)
    /\ (fail # 1 => Len(socks) < MaxSockets)
    /\ LET branch == IF fail = 0 THEN "ok" ELSE Handle("connect", "ZMQError") IN
       lastCall' = [name |-> "connect", ret |-> Ret(branch)]
    /\ IF fail = 1
       THEN UNCHANGED <<socket, socks, partial, rcvQueue, connected>>
       ELSE /\ socks' = Append(Release(socks, socket),
                               NewSocket(IF fail = 0 THEN Len(ConnectCalls) ELSE fail - 2))
            /\ socket' = Len(socks) + 1
            /\ partial' = <<>>
            /\ rcvQueue' = <<>>
            /\ connected' = TRUE
    /\ UNCHANGED <<context, inbox>>

\* connect(): `fail` is the call that raises: 0 none, 1 context.socket(),
\* 2..6 the (fail-1)th of ConnectCalls.
connect(fail) ==
    /\ (context = "terminated" => fail = 1)
    /\ (fail # 1 => Len(socks) < MaxSockets)
    /\ LET branch == IF fail = 0 THEN "ok" ELSE Handle("connect", "ZMQError") IN
       lastCall' = [name |-> "connect", ret |-> Ret(branch)]
    /\ IF fail = 1
       THEN UNCHANGED <<socket, socks, partial, rcvQueue, connected>>
       ELSE /\ socks' = Append(Release(socks, socket),
                               NewSocket(IF fail = 0 THEN Len(ConnectCalls) ELSE fail - 2))
            /\ socket' = Len(socks) + 1
            /\ partial' = <<>>
            /\ rcvQueue' = <<>>
            /\ connected' = IF fail = 0 THEN TRUE ELSE connected
    /\ UNCHANGED <<context, inbox>>

\* disconnect() that only marks the session disconnected
disconnect_FlagOnly ==
    /\ connected' = FALSE
    /\ lastCall' = [name |-> "disconnect", ret |-> "None"]
    /\ UNCHANGED <<socket, context, socks, partial, rcvQueue, inbox>>

\* disconnect(): socket.close() if self.socket, context.term(), connected = False.
\* close() on None raises AttributeError, which nothing catches; context.term()
\* returns once every socket of the context is closed.
disconnect ==
    LET closes == Truthy(socket)
        raises == closes /\ socket = 0
        closed == IF closes /\ ~raises THEN CloseSocket(socks, socket) ELSE socks
    IN  IF raises
        THEN /\ lastCall' = [name |-> "disconnect", ret |-> "raised"]
             /\ UNCHANGED <<connected, socket, context, socks, partial, rcvQueue, inbox>>
        ELSE /\ \A i \in 1..Len(closed) : ~closed[i].open
             /\ socks' = closed
             /\ context' = "terminated"
             /\ connected' = FALSE
             /\ partial' = <<>>
             /\ rcvQueue' = <<>>
             /\ lastCall' = [name |-> "disconnect", ret |-> "None"]
             /\ UNCHANGED <<socket, inbox>>

(***************************************************************************)
(* The send operations.                                                    *)
(***************************************************************************)
SendClasses == {"none", "Again", "ZMQError", "AttributeError", "blocked"}

AllSendResults == [k : 0..3, cls : SendClasses]

\* What sending the frames fs on self.socket can do: k frames are accepted, then
\* cls happens ("none": all were sent). None has no send method; a closed socket
\* refuses the call; a socket with no pipe blocks the first
\* frame until the send timeout (zmq.Again), forever without one; the later
\* frames of a started message are accepted without blocking.
SendResults(fs) ==
    {r \in AllSendResults :
        IF socket = 0 THEN r.k = 0 /\ r.cls = "AttributeError"
        ELSE IF ~socks[socket].open THEN r.k = 0 /\ r.cls = "ZMQError"
        ELSE IF ~Peered(socket)
        THEN r.k = 0 /\ r.cls \in {"ZMQError", IF SndTimeo(socket) >= 0 THEN "Again" ELSE "blocked"}
        ELSE \/ r.k = Len(fs) /\ r.cls = "none"
             \/ r.k < Len(fs) /\ r.cls = "ZMQError"
             \/ r.k = 0 /\ r.cls = "Again" /\ partial = <<>>}

StartOp(kind, path) ==
    [NoOp EXCEPT !.id = nops + 1, !.kind = kind, !.st = "run", !.path = path]

Finish(o, branch) == [o EXCEPT !.st = "done", !.branch = branch, !.ret = Ret(branch)]

Raise(o, site, cls) == Finish([o EXCEPT !.site = site, !.exc = cls], Handle(site, cls))

\* socket.send_string / socket.send of the frames fs, in order, all but the last
\* with SNDMORE; the message reaches the peer when its last frame is sent.
Transmit(o, fs) ==
    \E r \in SendResults(fs) :
        /\ partial' = IF r.k = Len(fs) THEN <<>> ELSE partial \o SubSeq(fs, 1, r.k)
        /\ inbox' = IF r.k = Len(fs)
                    THEN Append(inbox, [sock |-> socket, frames |-> partial \o fs])
                    ELSE inbox
        /\ op' = LET sent == [o EXCEPT !.frames = SubSeq(fs, 1, r.k)] IN
                 CASE r.cls = "none" -> [sent EXCEPT !.st = "recv"]
                   [] r.cls = "blocked" -> [sent EXCEPT !.st = "blocked"]
                   [] OTHER -> Raise(sent, "send", r.cls)
        /\ UNCHANGED rcvQueue

\* send_file without the validation of the path before the sends
send_file_NoValidation(o, path) ==
    IF ~connected
    THEN op' = Finish([o EXCEPT !.site = "guard"], "not_connected") /\ UNCHANGED wireVars
    ELSE Transmit(o, FileEnvelope(o.id, path, Content(path)))

\* send_file(file_path) up to "File sent, waiting for reply..."
send_file(o, path) ==
    IF ~connected
    THEN op' = Finish([o EXCEPT !.site = "guard"], "not_connected") /\ UNCHANGED wireVars
    ELSE IF ~Exists(path)
    THEN op' = Finish([o EXCEPT !.site = "exists"], "not_found") /\ UNCHANGED wireVars
    ELSE IF ~Readable(path)
    THEN op' = Raise(o, "read", "OSError") /\ UNCHANGED wireVars
    ELSE Transmit([o EXCEPT !.hash = calculate_sha256(Content(path))],
                  FileEnvelope(o.id, path, Content(path)))

\* send_message without the `if not self.connected` test
send_message_Unguarded(o, text) == Transmit(o, TextEnvelope(o.id, text))

\* send_message(message) up to the wait for the reply
send_message(o, text) ==
    IF ~connected
    THEN op' = Finish([o EXCEPT !.site = "guard"], "not_connected") /\ UNCHANGED wireVars
    ELSE Transmit(o, TextEnvelope(o.id, text))

\* send_json_message passing str(data) on when json.dumps cannot serialize it
send_json_message_StrFallback(o, data) ==
    send_message(o, IF Serializable(data) THEN Dumps(data) ELSE "{1}")

\* send_json_message(data): json.dumps, then send_message
send_json_message(o, data) ==
    IF ~Serializable(data)
    THEN op' = Finish([o EXCEPT !.site = "dumps", !.exc = "TypeError"],
                      IF IsException("TypeError") THEN "json_error" ELSE "raised")
         /\ UNCHANGED wireVars
    ELSE send_message(o, Dumps(data))

RecvResults == {"reply", "Again", "ZMQError", "UnicodeDecodeError"}

\* recv_string called once more after a first receive timeout
recv_reply_Retry(res) ==
    /\ op.st = "recv"
    /\ res \in {"reply", "UnicodeDecodeError"} => rcvQueue # <<>>
    /\ res = "Again" => rcvQueue = <<>> /\ RcvTimeo(socket) >= 0
    /\ rcvQueue' = IF res \in {"reply", "UnicodeDecodeError"} THEN Tail(rcvQueue) ELSE rcvQueue
    /\ op' = LET o == [op EXCEPT !.nrecv = op.nrecv + 1] IN
             IF res = "reply"
             THEN Finish([o EXCEPT !.got = Head(rcvQueue).re], "ok")
             ELSE IF res = "Again" /\ o.nrecv < 2 THEN o
             ELSE Raise(o, "recv", res)
    /\ UNCHANGED <<partial, inbox>>

\* reply = self.socket.recv_string() and the branches after it. A frame in the
\* queue is taken and decoded; with an empty queue the call ends with zmq.Again
\* when the receive timeout expires and blocks when none is set.
recv_reply(res) ==
    /\ op.st = "recv"
    /\ res \in {"reply", "UnicodeDecodeError"} => rcvQueue # <<>>
    /\ res = "Again" => rcvQueue = <<>> /\ RcvTimeo(socket) >= 0
    /\ rcvQueue' = IF res \in {"reply", "UnicodeDecodeError"} THEN Tail(rcvQueue) ELSE rcvQueue
    /\ op' = LET o == [op EXCEPT !.nrecv = op.nrecv + 1] IN
             IF res = "reply"
             THEN Finish([o EXCEPT !.got = Head(rcvQueue).re], "ok")
             ELSE Raise(o, "recv", res)
    /\ UNCHANGED <<partial, inbox>>

\* The peer (ROUTER side) takes the next message and answers it with one text
\* frame; the answer to a socket that is closed meanwhile is dropped.
PeerReply ==
    /\ inbox # <<>>
    /\ LET m == Head(inbox) IN
       /\ inbox' = Tail(inbox)
       /\ rcvQueue' = IF m.sock = socket /\ socks[m.sock].open
                      THEN Append(rcvQueue, [re |-> {f.op : f \in Range(m.frames)}])
                      ELSE rcvQueue
    /\ UNCHANGED <<connected, socket, context, socks, lastCall, partial, op, prev, nops,
                   mpc, cmd, exitCode>>

(***************************************************************************)
(* The client driven directly: any sequence of calls of its public methods.*)
(***************************************************************************)
Idle == op.st = "done"

CanSend == Idle /\ nops < MaxOps

BeginOp ==
    /\ nops' = nops + 1
    /\ prev' = [cause |-> Cause(op), ret |-> op.ret, hash |-> op.hash]

Connect ==
    /\ mpc = "api" /\ Idle
    /\ \E fail \in 0..6 : connect(fail)
    /\ UNCHANGED <<op, prev, nops, mpc, cmd, exitCode>>

Disconnect ==
    /\ mpc = "api" /\ Idle
    /\ disconnect
    /\ UNCHANGED <<op, prev, nops, mpc, cmd, exitCode>>

SendFile ==
    /\ mpc = "api" /\ CanSend
    /\ \E path \in Paths : send_file(StartOp("file", path), path)
    /\ BeginOp
    /\ UNCHANGED <<connected, socket, context, socks, lastCall, mpc, cmd, exitCode>>

SendMessage ==
    /\ mpc = "api" /\ CanSend
    /\ \E text \in Messages : send_message(StartOp("message", <<>>), text)
    /\ BeginOp
    /\ UNCHANGED <<connected, socket, context, socks, lastCall, mpc, cmd, exitCode>>

SendJson ==
    /\ mpc = "api" /\ CanSend
    /\ \E data \in JsonValues : send_json_message(StartOp("json", <<>>), data)
    /\ BeginOp
    /\ UNCHANGED <<connected, socket, context, socks, lastCall, mpc, cmd, exitCode>>

\* a receive timeout marking the session disconnected
Recv_DisconnectsOnTimeout ==
    /\ \E res \in RecvResults : recv_reply(res)
    /\ connected' = (connected /\ op'.branch # "timeout")
    /\ UNCHANGED <<socket, context, socks, lastCall, prev, nops, mpc, cmd, exitCode>>

Recv ==
    /\ \E res \in RecvResults : recv_reply(res)
    /\ UNCHANGED <<connected, socket, context, socks, lastCall, prev, nops, mpc, cmd, exitCode>>

Next ==
    \/ Connect
    \/ Disconnect
    \/ SendFile
    \/ SendMessage
    \/ SendJson
    \/ Recv
    \/ PeerReply

Spec == Init /\ [][Next]_vars

(***************************************************************************)
(* main(): from the creation of the client (client = ANARIUSDClient(...))  *)
(* to its return. mpc is main's position: "connect", "dispatch", "await"   *)
(* (a one-shot command's operation is running), "test2", "test3",          *)
(* "testend" (run_test_sequence), "loop" (interactive_mode), "finally",    *)
(* "exit" (main has returned).                                             *)
(***************************************************************************)
Commands == {"send-file", "send-message", "send-json", "test", "interactive", "bogus"}

MainInit ==
    /\ connected = FALSE
    /\ socket = 0
    /\ context = "open"
    /\ socks = <<>>
    /\ lastCall = [name |-> "__init__", ret |-> "None"]
    /\ partial = <<>>
    /\ inbox = <<>>
    /\ rcvQueue = <<>>
    /\ op = NoOp
    /\ prev = [cause |-> "none", ret |-> "None", hash |-> ""]
    /\ nops = 0
    /\ mpc = "connect"
    /\ cmd \in [name : Commands, hasArg : BOOLEAN]
    /\ exitCode = -1

\* if not client.connect(): return 1
MainConnect ==
    /\ mpc = "connect"
    /\ \E fail \in 0..6 : connect(fail)
    /\ IF lastCall'.ret = "True"
       THEN mpc' = "dispatch" /\ exitCode' = exitCode
       ELSE mpc' = "exit" /\ exitCode' = 1
    /\ UNCHANGED <<op, prev, nops, cmd>>

\* a return inside the try block: the finally clause runs next
ReturnFromTry(code) ==
    /\ exitCode' = code
    /\ mpc' = "finally"
    /\ UNCHANGED <<connected, socket, context, socks, lastCall, partial, inbox, rcvQueue,
                   op, prev, nops, cmd>>

MainSendFile ==
    /\ mpc = "dispatch" /\ cmd.name = "send-file"
    /\ IF ~cmd.hasArg
       THEN ReturnFromTry(1)
       ELSE /\ \E path \in Paths : send_file(StartOp("file", path), path)
            /\ BeginOp
            /\ mpc' = "await"
            /\ UNCHANGED <<connected, socket, context, socks, lastCall, cmd, exitCode>>

MainSendMessage ==
    /\ mpc = "dispatch" /\ cmd.name = "send-message"
    /\ IF ~cmd.hasArg
       THEN ReturnFromTry(1)
       ELSE /\ \E text \in Messages : send_message(StartOp("message", <<>>), text)
            /\ BeginOp
            /\ mpc' = "await"
            /\ UNCHANGED <<connected, socket, context, socks, lastCall, cmd, exitCode>>

\* send-json: the file is opened and parsed first; failing that, return 1
MainSendJson ==
    /\ mpc = "dispatch" /\ cmd.name = "send-json"
    /\ \E loaded \in BOOLEAN :
         IF ~cmd.hasArg \/ ~loaded
         THEN ReturnFromTry(1)
         ELSE /\ \E data \in ParsedJsonValues :
                    send_json_message(StartOp("json", <<>>), data)
              /\ BeginOp
              /\ mpc' = "await"
              /\ UNCHANGED <<connected, socket, context, socks, lastCall, cmd, exitCode>>

\* return 0 if success else 1
MainAwait ==
    /\ mpc = "await" /\ Idle
    /\ ReturnFromTry(IF op.ret = "True" THEN 0 ELSE 1)

\* run_test_sequence: message, JSON message, "STATUS"
MainTest1 ==
    /\ mpc = "dispatch" /\ cmd.name = "test"
    /\ send_message(StartOp("message", <<>>), "Hello from Python ZMQ client!")
    /\ BeginOp
    /\ mpc' = "test2"
    /\ UNCHANGED <<connected, socket, context, socks, lastCall, cmd, exitCode>>

MainTest2 ==
    /\ mpc = "test2" /\ Idle
    /\ \E data \in ParsedJsonValues : send_json_message(StartOp("json", <<>>), data)
    /\ BeginOp
    /\ mpc' = "test3"
    /\ UNCHANGED <<connected, socket, context, socks, lastCall, cmd, exitCode>>

MainTest3 ==
    /\ mpc = "test3" /\ Idle
    /\ send_message(StartOp("message", <<>>), "STATUS")
    /\ BeginOp
    /\ mpc' = "testend"
    /\ UNCHANGED <<connected, socket, context, socks, lastCall, cmd, exitCode>>

MainTestEnd ==
    /\ mpc = "testend" /\ Idle
    /\ ReturnFromTry(0)

\* interactive_mode: one input line per step
MainInteractive ==
    /\ mpc = "dispatch" /\ cmd.name = "interactive"
    /\ mpc' = "loop"
    /\ UNCHANGED <<connected, socket, context, socks, lastCall, partial, inbox, rcvQueue,
                   op, prev, nops, cmd, exitCode>>

LoopFile ==
    /\ mpc = "loop" /\ CanSend
    /\ \E path \in Paths : send_file(StartOp("file", path), path)
    /\ BeginOp
    /\ UNCHANGED <<connected, socket, context, socks, lastCall, mpc, cmd, exitCode>>

LoopMessage ==
    /\ mpc = "loop" /\ CanSend
    /\ \E text \in Messages : send_message(StartOp("message", <<>>), text)
    /\ BeginOp
    /\ UNCHANGED <<connected, socket, context, socks, lastCall, mpc, cmd, exitCode>>

\* json <data>: json.loads succeeded
LoopJson ==
    /\ mpc = "loop" /\ CanSend
    /\ \E data \in ParsedJsonValues : send_json_message(StartOp("json", <<>>), data)
    /\ BeginOp
    /\ UNCHANGED <<connected, socket, context, socks, lastCall, mpc, cmd, exitCode>>

\* an empty line, an unknown command or invalid JSON: a message is printed at most
LoopIgnored ==
    /\ mpc = "loop" /\ Idle
    /\ UNCHANGED vars

\* quit, EOF or KeyboardInterrupt; main then returns 0
LoopQuit ==
    /\ mpc = "loop" /\ Idle
    /\ ReturnFromTry(0)

\* Unknown command
MainUnknown ==
    /\ mpc = "dispatch" /\ cmd.name = "bogus"
    /\ ReturnFromTry(1)

\* finally: client.disconnect()
MainFinally ==
    /\ mpc = "finally"
    /\ disconnect
    /\ mpc' = "exit"
    /\ UNCHANGED <<op, prev, nops, cmd, exitCode>>

MainNext ==
    \/ MainConnect
    \/ MainSendFile
    \/ MainSendMessage
    \/ MainSendJson
    \/ MainAwait
    \/ MainTest1
    \/ MainTest2
    \/ MainTest3
    \/ MainTestEnd
    \/ MainInteractive
    \/ LoopFile
    \/ LoopMessage
    \/ LoopJson
    \/ LoopIgnored
    \/ LoopQuit
    \/ MainUnknown
    \/ MainFinally
    \/ Recv
    \/ PeerReply

MainSpec == MainInit /\ [][MainNext]_vars

(***************************************************************************)
(* Properties.                                                             *)
(***************************************************************************)
\* a step that invokes send_file, send_message or send_json_message
Invokes == nops' = nops + 1

\* C1: whenever the session is not Connected (never connected, connect failed,
\* or after disconnect), an invocation of send_file, send_message or
\* send_json_message returns False at once: it hands no frame to the socket,
\* calls no receive, and leaves the socket's queues and the peer untouched.
C1_NotConnectedFailsFast ==
    [][(~connected /\ Invokes) =>
          /\ op'.st = "done"
          /\ op'.ret = "False"
          /\ op'.site \in {"guard", "dumps"}
          /\ op'.frames = <<>>
          /\ op'.nrecv = 0
          /\ UNCHANGED wireVars]_vars

\* a send_file refused after disconnect() of a session that had an open socket
C1_Witness ==
    /\ op.kind = "file" /\ op.st = "done" /\ op.site = "guard" /\ op.ret = "False"
    /\ lastCall.name = "disconnect"
    /\ socket # 0

C3Hard == {"NotConnected", "FileNotFound", "SendError", "DecodeError"}

WellFormed(fs) ==
    \/ Len(fs) = 1 /\ fs[1].part = "text"
    \/ /\ Len(fs) = 3
       /\ fs[1].part = "name" /\ fs[2].part = "content" /\ fs[3].part = "digest"
       /\ fs[2].op = fs[1].op /\ fs[3].op = fs[1].op

\* C4: every multipart message the peer receives is exactly one text frame or
\* exactly the three frames of a single send_file call in order, also after a
\* send_file that failed having sent only its first or first two frames.
C4_MessagesNotCombined ==
    \A i \in 1..Len(inbox) : WellFormed(inbox[i].frames)

\* C5: a send_file whose sends all succeeded handed the socket exactly three
\* frames, in this order: the base name of the path, the content of the file
\* unmodified (also when empty), and the SHA-256 hex digest of the second frame;
\* no send_file hands over more than three frames.
C5_FileEnvelopeFrames ==
    op.kind = "file" =>
        /\ Len(op.frames) <= 3
        /\ (op.st = "recv" \/ op.nrecv > 0) => Len(op.frames) = 3
        /\ Len(op.frames) = 3 =>
              /\ op.frames[1].part = "name"
              /\ op.frames[1].text = op.path[Len(op.path)]
              /\ op.frames[2].part = "content"
              /\ op.frames[2].bytes = Content(op.path)
              /\ op.frames[3].part = "digest"
              /\ op.frames[3].text = calculate_sha256(op.frames[2].bytes)
              /\ \A i \in 1..3 : op.frames[i].op = op.id

\* a file with empty content was sent whole and answered
C5_Witness ==
    /\ op.kind = "file" /\ op.st = "done" /\ op.branch = "ok"
    /\ Len(op.frames) = 3 /\ op.frames[2].bytes = <<>>
    /\ op.frames[3].text = "e3b0c44298fc1c149afbf4c8996fb92427ae41e4649b934ca495991b7852b855"

\* C6: whenever an operation reports success, the reply it consumed is the peer's
\* reply to a message holding the frames this same operation sent, also when an
\* earlier operation timed out and the reply to it arrives late.
C6_ReplyIsToOwnEnvelope ==
    (op.st = "done" /\ op.branch = "ok") => op.id \in op.got

\* C7: an operation waiting for its reply never blocks forever (with no reply
\* queued the wait can end by the receive timeout), and when recv_string ends
\* with zmq.Again the operation ends in the timeout branch and returns False,
\* having sent its whole envelope.
C7_TimeoutBranch ==
    /\ (op.st = "recv" /\ rcvQueue = <<>>) =>
          RcvTimeo(socket) = RCVTIMEO_MS /\ ENABLED recv_reply("Again")
    /\ (op.st = "done" /\ op.site = "recv" /\ op.exc = "Again") =>
          /\ op.branch = "timeout"
          /\ Outcome(op.branch) = "TimedOut"
          /\ op.ret = "False"
          /\ op.nrecv = 1
          /\ Len(op.frames) = IF op.kind = "file" THEN 3 ELSE 1

\* a send_file sent whole whose wait for the reply timed out
C7_Witness ==
    /\ op.kind = "file" /\ op.st = "done" /\ op.site = "recv" /\ op.exc = "Again"
    /\ Len(op.frames) = 3 /\ op.branch = "timeout"

\* C8: no exception leaves a public operation: connect returns True or False,
\* and send_file, send_message and send_json_message return True or False
\* whatever call raised (reading the file, a send, the send timeout, the
\* receive, decoding the reply, json.dumps); every finished invocation is in
\* exactly one of Succeeded, TimedOut, Failed.
C8_NoExceptionEscapes ==
    /\ op.ret # "raised"
    /\ lastCall.name = "connect" => lastCall.ret \in {"True", "False"}
    /\ (op.st = "done" /\ op.kind # "none") =>
          /\ op.ret \in {"True", "False"}
          /\ Outcome(op.branch) \in {"Succeeded", "TimedOut", "Failed"}
          /\ (op.exc # "none") => op.ret = "False"

\* an undecodable reply, caught
C8_Witness ==
    /\ op.st = "done" /\ op.site = "recv" /\ op.exc = "UnicodeDecodeError"
    /\ op.ret = "False"

AllSocketsClosed == \A i \in 1..Len(socks) : ~socks[i].open

\* C9: disconnect can be called in every session state and returns (None)
\* without an exception, leaving connected False, the socket (if any) closed
\* and the context terminated; called again right after a disconnect it
\* changes nothing of the session.
C9_DisconnectIdempotentTotal ==
    /\ []((mpc = "api" /\ Idle) => ENABLED Disconnect)
    /\ [][Disconnect =>
            /\ lastCall'.ret = "None"
            /\ connected' = FALSE
            /\ context' = "terminated"
            /\ AllSocketsClosed'
            /\ (lastCall.name = "disconnect" => UNCHANGED <<sessionVars, wireVars, lastCall>>)]_vars

\* disconnect returned on a session whose connect had failed after the socket
\* was created
C9_Witness ==
    /\ lastCall = [name |-> "disconnect", ret |-> "None"]
    /\ socket # 0 /\ Len(socks) = 1
    /\ ~connected /\ context = "terminated" /\ AllSocketsClosed
    /\ nops = 0

\* C10: when main returns after the client was created, disconnect has been
\* called: every socket is closed and the context is terminated.
C10_TornDownBeforeReturn ==
    mpc = "exit" =>
        /\ lastCall.name = "disconnect"
        /\ context = "terminated"
        /\ AllSocketsClosed

C12_JsonDelegatesToSendMessage ==
    [][(Invokes /\ op'.kind = "json") =>
          \/ /\ Cause(op') = "SerializationError"
             /\ op'.ret = "False" /\ op'.frames = <<>> /\ op'.nrecv = 0
             /\ UNCHANGED wireVars
          \/ \E data \in JsonValues :
                /\ Serializable(data)
                /\ send_message(StartOp("json", <<>>), Dumps(data))
                /\ op'.frames \in {<<>>, TextEnvelope(op'.id, Dumps(data))}]_vars

\* a value that cannot be serialized was refused, then a serializable one was
\* sent in one text frame and answered
C12_Witness ==
    /\ op.kind = "json" /\ op.st = "done" /\ op.ret = "True"
    /\ Len(op.frames) = 1 /\ op.frames[1].part = "text" /\ op.nrecv = 1
    /\ prev.cause = "SerializationError" /\ prev.ret = "False"

\* the whole envelope invocation o sends
Envelope(o) ==
    IF o.kind = "file" THEN FileEnvelope(o.id, o.path, Content(o.path))
    ELSE << Frame(o.id, "text", "", <<>>) >>

\* C13: no implicit retry. The frames an invocation handed to the socket are a
\* prefix of its one envelope (the text of a text frame aside), it calls
\* recv_string at most once and only after the last frame was sent, at most one
\* message per invocation reaches the peer, and once it returned (TimedOut and
\* Failed included) it sends and receives nothing until the next invocation.
C13_NoImplicitRetry ==
    [][/\ op'.nrecv <= 1
       /\ Len(op'.frames) <= Len(Envelope(op'))
       /\ \A i \in 1..Len(op'.frames) :
             [op'.frames[i] EXCEPT !.text = ""] = [Envelope(op')[i] EXCEPT !.text = ""]
       /\ op'.nrecv = 1 => Len(op'.frames) = Len(Envelope(op'))
       /\ Invokes => op'.nrecv = 0
       /\ op'.nrecv # op.nrecv /\ ~Invokes =>
             op.st = "recv" /\ op'.st = "done" /\ op'.frames = op.frames
       /\ Len(inbox') <= Len(inbox) + 1
       /\ Len(inbox') > Len(inbox) => Invokes /\ op'.st = "recv"
       /\ (op.st = "done" /\ ~Invokes) =>
             /\ op' = op
             /\ Len(inbox') <= Len(inbox)
             /\ partial' \in {partial, <<>>}]_vars

\* a send error, then an invocation that sent its three frames, waited once and
\* timed out, after which the client did something else
C13_Witness ==
    /\ op.st = "done" /\ op.kind = "file" /\ Cause(op) = "Timeout"
    /\ Len(op.frames) = 3 /\ op.nrecv = 1
    /\ prev.cause = "SendError"
    /\ lastCall.name = "disconnect"

\* the invocation o got as far as handing frames to the socket
ReachedSending(o) == o.st \in {"recv", "blocked"} \/ o.site \in {"send", "recv"} \/ o.branch = "ok"

\* C14: every step of send_file, send_message and send_json_message (the call
\* and the receive that ends it) leaves connected, socket, context and the
\* sockets' state as they were, whatever the outcome; so an invocation made on a
\* Connected session after an earlier one ended passes the connected test, and a
\* send_message then reaches the send.
C14_SendsKeepSession ==
    [][(Invokes \/ op' # op) =>
          /\ UNCHANGED sessionVars
          /\ (Invokes /\ connected /\ prev'.cause # "none") =>
                /\ connected'
                /\ op'.site # "guard"
                /\ op'.kind = "message" => ReachedSending(op')]_vars

\* on a Connected session an invocation timed out or failed in the send, and the
\* next one sent its frames
C14_Witness ==
    /\ connected /\ op.id = 2 /\ op.kind = "message"
    /\ prev.cause \in {"Timeout", "SendError"}
    /\ Len(op.frames) = 1 /\ op.st = "done"

\* C15: an invocation ends in the timeout branch only after every frame of its
\* envelope was sent and its one recv_string ended with zmq.Again; a send that
\* ended with zmq.Again (send timeout) ends in the generic error branch
\* (SendError, False), not the timeout branch, and recv_string is not called.
C15_TimeoutOnlyFromAwaitingReply ==
    op.st = "done" =>
        /\ (op.branch = "timeout" \/ Cause(op) = "Timeout") =>
              /\ Len(op.frames) = Len(Envelope(op))
              /\ op.nrecv = 1 /\ op.site = "recv" /\ op.exc = "Again"
              /\ op.branch = "timeout"
        /\ (op.site = "send" /\ op.exc = "Again") =>
              /\ op.branch = "error" /\ Cause(op) = "SendError" /\ op.ret = "False"
              /\ op.nrecv = 0 /\ op.got = {}
              /\ Len(op.frames) < Len(Envelope(op))

\* a receive timeout, then a send that ran into the send timeout
C15_Witness ==
    /\ op.st = "done" /\ op.site = "send" /\ op.exc = "Again"
    /\ prev.cause = "Timeout"

\* the step is a call of connect()
ConnectStep ==
    lastCall'.name = "connect" /\ (Len(socks') > Len(socks) \/ lastCall' # lastCall)

\* position of call c in the calls made on socket s of ss (0: not made)
CallPos(ss, s, c) ==
    IF \E i \in 1..Len(ss[s].calls) : ss[s].calls[i] = c
    THEN CHOOSE i \in 1..Len(ss[s].calls) : ss[s].calls[i] = c
    ELSE 0

\* C16: on every socket connect() created, the transport connect was called
\* only after LINGER, RCVTIMEO, SNDTIMEO and IDENTITY were set; connect() sets
\* the connected flag only when the transport connect returned, and then returns
\* True; when a step raised, connect() returns False, the socket it created was
\* not connected and the flag is left as it was.
C16_ConfiguredThenConnected ==
    [][ConnectStep =>
          /\ \A s \in 1..Len(socks') :
                CallPos(socks', s, "connect") > 0 =>
                   \A c \in {"LINGER", "RCVTIMEO", "SNDTIMEO", "IDENTITY"} :
                      /\ CallPos(socks', s, c) > 0
                      /\ CallPos(socks', s, c) < CallPos(socks', s, "connect")
          /\ (connected' # connected \/ lastCall'.ret = "True") =>
                /\ connected' /\ lastCall'.ret = "True"
                /\ socket' = Len(socks') /\ Len(socks') > Len(socks)
                /\ socks'[socket'].open
                /\ CallPos(socks', socket', "connect") > 0
          /\ lastCall'.ret # "True" =>
                /\ lastCall'.ret = "False"
                /\ connected' = connected
                /\ Len(socks') > Len(socks) => CallPos(socks', socket', "connect") = 0]_vars

\* the four options were set, the transport connect raised: connect() returned
\* False and the session is not marked connected
C16_Witness ==
    /\ lastCall = [name |-> "connect", ret |-> "False"]
    /\ ~connected /\ socket # 0 /\ socks[socket].open
    /\ socks[socket].calls = <<"LINGER", "RCVTIMEO", "SNDTIMEO", "IDENTITY">>

\* C17: after every call of connect() and disconnect(), the connected flag is
\* true exactly when the socket self.socket holds was connected to the endpoint
\* and is still open, and connect() returns True exactly when the flag is true
\* after the call.
C17_FlagMatchesSocket ==
    [][/\ connected' = (socket' # 0 /\ socks'[socket'].open
                                    /\ CallPos(socks', socket', "connect") > 0)
       /\ ConnectStep => ((lastCall'.ret = "True") = connected')]_vars

\* C18: once disconnect() has returned, every socket a connect() call of this
\* client created is closed and the context is terminated, however many
\* connect() calls came before it, and no later call opens a socket again.
C18_DisconnectReleasesAll ==
    /\ (lastCall = [name |-> "disconnect", ret |-> "None"]) =>
          AllSocketsClosed /\ context = "terminated"
    /\ context = "terminated" => AllSocketsClosed

\* disconnect() returned after two connect() calls with no disconnect() between
\* them: both sockets are closed
C18_Witness ==
    /\ lastCall = [name |-> "disconnect", ret |-> "None"]
    /\ Len(socks) = 2 /\ socket = 2
    /\ ~socks[1].open /\ ~socks[2].open /\ context = "terminated"

====
